---- MODULE Spec2Model ----
(***************************************************************************)
(* Playback controller of examples/07_record3d_visualizer.py: one frame    *)
(* node per recorded timestep, a timestep slider whose change callback     *)
(* swaps the visible frame inside server.atomic(), Next/Prev buttons, a    *)
(* Playing checkbox, an FPS slider and the playback loop of the main       *)
(* thread.                                                                 *)
(*                                                                         *)
(* Frame indices are 0-based as in the source; frame_nodes is a TLA+       *)
(* sequence, so frame_nodes[k + 1] is the visibility of /frames/t{k}.      *)
(***************************************************************************)
EXTENDS Integers, Sequences, FiniteSets, TLC

\* Largest number of frames explored (num_frames ranges over 1..MaxFrames).
MaxFrames == 3

\* Largest FPS value explored (the slider allows 1..60).
MaxFps == 2

\* Lower end of the FPS slider.
MinFps == 1

Threads == {"main", "event"}

VARIABLES
    num_frames,               \* min(max_frames, loader.num_frames())
    frame_nodes,              \* visibility of the frame nodes appended so far
    gui_timestep,             \* gui_timestep.value
    gui_timestep_disabled,    \* gui_timestep.disabled
    gui_next_frame_disabled,  \* gui_next_frame.disabled
    gui_prev_frame_disabled,  \* gui_prev_frame.disabled
    gui_playing,              \* gui_playing.value
    gui_framerate,            \* gui_framerate.value
    prev_timestep,            \* the closed-over prev_timestep
    pc,                       \* position of each thread
    i,                        \* loop index of the loading and hiding loops
    wait_fps,                 \* FPS value the wait in flight was computed from
    req,                      \* per thread: value about to be written to the slider
    current_timestep,         \* per thread: the callback's local current_timestep
    lastOp,                   \* history: the last timestep operation that ran
    trail,                    \* history: the state before an acting Next or Prev
    cycle,                    \* history: run of consecutive Next clicks
    touched                   \* history: some control event has occurred

ctl == <<gui_timestep, gui_timestep_disabled, gui_next_frame_disabled,
         gui_prev_frame_disabled, gui_playing, gui_framerate>>
hist == <<lastOp, trail, cycle, touched>>
locals == <<req, current_timestep>>
vars == <<num_frames, frame_nodes, ctl, prev_timestep, pc, i, wait_fps, locals, hist>>

----------------------------------------------------------------------------
(* Pure helpers *)

\* Indices of the frame roots whose visible flag is set.
VisibleFrames(nodes) == {k \in 0..(Len(nodes) - 1) : nodes[k + 1]}

\* History records.  lastOp: the operation, whether it acted (the control
\* was enabled), the batches it published, whether its atomic block raised
\* and the injected fault.  trail: the Next or Prev that acted last, with the
\* slider value and the visibilities it started from.
NoOp == [op |-> "none", acted |-> FALSE, txs |-> <<>>, raised |-> FALSE, fault |-> 0]

NoTrail == [op |-> "none", ts |-> 0, nodes |-> <<>>]

NoCycle == [count |-> 0, start |-> 0]

\* The increment without the wrap-around, to compare NextRequest against.
NextRequestNoWrap(v) == v + 1

\* Value requested by the Next Frame callback.
NextRequest(v) == (v + 1) % num_frames

\* Value requested by the Prev Frame callback (Python's % is non-negative).
PrevRequest(v) == (v - 1) % num_frames

\* Mutant of TickRequest: the increment without the wrap-around.
TickRequestNoWrap(v) == v + 1

\* Value requested by one iteration of the playback loop.
TickRequest(v) == (v + 1) % num_frames

\* Mutant of PlayingDisabled: the controls are never disabled.
PlayingDisabledNever(playing) == FALSE

\* The disabled flag the Playing callback writes to the three controls.
PlayingDisabled(playing) == playing

\* Mutant of HideValue: the comparison inverted.
HideValueInverted(k, v) == k # v

\* The visibility the hiding loop gives frame k when the slider is at v.
HideValue(k, v) == k = v

\* Mutant of Mutations: the previous frame is not hidden.
MutationsShowOnly(cur, prv) == << [node |-> cur, visible |-> TRUE] >>

\* The ordered writes in the body of the atomic block.
Mutations(cur, prv) ==
    << [node |-> cur, visible |-> TRUE], [node |-> prv, visible |-> FALSE] >>

\* frame_nodes[k] raises IndexError when the list has no element k.
IndexRaises(nodes, k) == k >= Len(nodes)

RECURSIVE ApplyBatch(_, _)
ApplyBatch(nodes, batch) ==
    IF batch = <<>> THEN nodes
    ELSE ApplyBatch([nodes EXCEPT ![Head(batch).node + 1] = Head(batch).visible],
                    Tail(batch))

\* Number of mutations of the body issued before it raises: the first one
\* whose node does not exist, or the fault-th one when a setter fails
\* (fault = 0: no setter fails).  Len(batch) when the body completes.
Issued(nodes, batch, fault) ==
    LET bad == {k \in 1..Len(batch) : IndexRaises(nodes, batch[k].node) \/ k = fault}
    IN  IF bad = {} THEN Len(batch)
        ELSE (CHOOSE k \in bad : \A m \in bad : k <= m) - 1

\* Mutant of atomic: the mutations issued before the raise stay applied.
atomicNoRollback(nodes, batch, fault) ==
    IF Issued(nodes, batch, fault) = Len(batch)
    THEN [nodes |-> ApplyBatch(nodes, batch), txs |-> <<batch>>, raised |-> FALSE]
    ELSE [nodes |-> ApplyBatch(nodes, SubSeq(batch, 1, Issued(nodes, batch, fault))),
          txs |-> <<>>, raised |-> TRUE]

\* server.atomic(): the mutations of a body that completes are committed
\* together and published as one batch; a body that raises commits and
\* publishes nothing.
atomic(nodes, batch, fault) ==
    IF Issued(nodes, batch, fault) = Len(batch)
    THEN [nodes |-> ApplyBatch(nodes, batch), txs |-> <<batch>>, raised |-> FALSE]
    ELSE [nodes |-> nodes, txs |-> <<>>, raised |-> TRUE]

----------------------------------------------------------------------------
(* Initial state: after the GUI elements and callbacks are set up. *)

Init ==
    /\ num_frames \in 1..MaxFrames
    /\ frame_nodes = <<>>
    /\ gui_timestep = 0
    /\ gui_timestep_disabled = FALSE
    /\ gui_next_frame_disabled = FALSE
    /\ gui_prev_frame_disabled = FALSE
    /\ gui_playing = FALSE
    /\ gui_framerate \in MinFps..MaxFps
    /\ prev_timestep = 0
    /\ pc = [t \in Threads |-> IF t = "main" THEN "load" ELSE "idle"]
    /\ i = 0
    /\ wait_fps = 0
    /\ req = [t \in Threads |-> 0]
    /\ current_timestep = [t \in Threads |-> 0]
    /\ lastOp = NoOp
    /\ trail = NoTrail
    /\ cycle = NoCycle
    /\ touched = FALSE

\* The main thread has left the loading and hiding loops and reset prev_timestep.
InitDone == pc["main"] \notin {"load", "hide", "reset"}

\* The main thread is in its playback loop, between two passes.
Initialised == pc["main"] \in {"loop", "pace", "sleep"}

----------------------------------------------------------------------------
(* Main thread: loading, hiding, playback loop *)

\* One iteration of the loading loop: append the node /frames/t{i}.
LoadFrame ==
    /\ pc["main"] = "load"
    /\ frame_nodes' = Append(frame_nodes, TRUE)
    /\ IF i + 1 = num_frames
       THEN /\ i' = 0
            /\ pc' = [pc EXCEPT !["main"] = "hide"]
       ELSE /\ i' = i + 1
            /\ pc' = pc
    /\ lastOp' = NoOp
    /\ trail' = NoTrail
    /\ cycle' = NoCycle
    /\ UNCHANGED <<num_frames, ctl, prev_timestep, wait_fps, locals, touched>>

\* One iteration of the hiding loop.
HideFrame ==
    /\ pc["main"] = "hide"
    /\ frame_nodes' = [frame_nodes EXCEPT ![i + 1] = HideValue(i, gui_timestep)]
    /\ IF i + 1 = num_frames
       THEN /\ i' = 0
            /\ pc' = [pc EXCEPT !["main"] = "reset"]
       ELSE /\ i' = i + 1
            /\ pc' = pc
    /\ lastOp' = NoOp
    /\ trail' = NoTrail
    /\ cycle' = NoCycle
    /\ UNCHANGED <<num_frames, ctl, prev_timestep, wait_fps, locals, touched>>

\* prev_timestep = gui_timestep.value before the playback loop.
ResetPrev ==
    /\ pc["main"] = "reset"
    /\ prev_timestep' = gui_timestep
    /\ pc' = [pc EXCEPT !["main"] = "loop"]
    /\ lastOp' = NoOp
    /\ trail' = NoTrail
    /\ cycle' = NoCycle
    /\ UNCHANGED <<num_frames, frame_nodes, ctl, i, wait_fps, locals, touched>>

\* Writing v to gui_timestep.value stores it and runs the on_update callback
\* once, synchronously: the callback reads the stored value, runs the atomic
\* block, and remembers the value as prev_timestep when the block completed.
SetTimestep(v, fault) ==
    LET r == atomic(frame_nodes, Mutations(v, prev_timestep), fault)
    IN  /\ gui_timestep' = v
        /\ frame_nodes' = r.nodes
        /\ prev_timestep' = IF r.raised THEN prev_timestep ELSE v

\* SetTimestep, with the operation recorded in the history.
Transition(op, v, fault) ==
    LET r == atomic(frame_nodes, Mutations(v, prev_timestep), fault)
    IN  /\ SetTimestep(v, fault)
        /\ lastOp' = [op |-> op, acted |-> TRUE, txs |-> r.txs,
                      raised |-> r.raised, fault |-> fault]
        /\ trail' = IF op \in {"next", "prev"} /\ Initialised /\ ~r.raised
                    THEN [op |-> op, ts |-> gui_timestep, nodes |-> frame_nodes]
                    ELSE NoTrail

TransitionRaises(v, fault) ==
    atomic(frame_nodes, Mutations(v, prev_timestep), fault).raised

\* An interactive attempt on a disabled control changes nothing.
Suppressed(op) ==
    /\ lastOp' = [op |-> op, acted |-> FALSE, txs |-> <<>>, raised |-> FALSE,
                  fault |-> 0]
    /\ UNCHANGED <<frame_nodes, gui_timestep, prev_timestep, trail, cycle>>

\* One pass through "if gui_playing.value: gui_timestep.value = ...".
TickF(fault) ==
    /\ pc["main"] = "loop"
    /\ IF gui_playing
       THEN /\ Transition("tick", TickRequest(gui_timestep), fault)
            /\ cycle' = NoCycle
            /\ pc' = [pc EXCEPT !["main"] =
                         IF TransitionRaises(TickRequest(gui_timestep), fault)
                         THEN "crashed" ELSE "pace"]
       ELSE /\ pc' = [pc EXCEPT !["main"] = "pace"]
            /\ UNCHANGED <<frame_nodes, gui_timestep, prev_timestep,
                           lastOp, trail, cycle>>
    /\ UNCHANGED <<num_frames, gui_timestep_disabled, gui_next_frame_disabled,
                   gui_prev_frame_disabled, gui_playing, gui_framerate,
                   i, wait_fps, locals, touched>>

Tick == TickF(0)

\* Mutant of WaitFps: the period is computed once, for the first wait, and
\* reused afterwards.
WaitFpsFixed(current, inflight) == IF inflight = 0 THEN current ELSE inflight

\* The FPS value a wait is computed from: gui_framerate.value as read when
\* the wait begins (inflight, the value of the previous wait, is not used).
WaitFps(current, inflight) == current

\* time.sleep(1.0 / gui_framerate.value): the argument is evaluated when the
\* wait begins.
Pace ==
    /\ pc["main"] = "pace"
    /\ wait_fps' = WaitFps(gui_framerate, wait_fps)
    /\ pc' = [pc EXCEPT !["main"] = "sleep"]
    /\ UNCHANGED <<num_frames, frame_nodes, ctl, prev_timestep, i, locals, hist>>

\* The wait ends and the loop starts over.
Wake ==
    /\ pc["main"] = "sleep"
    /\ pc' = [pc EXCEPT !["main"] = "loop"]
    /\ UNCHANGED <<num_frames, frame_nodes, ctl, prev_timestep, i, wait_fps,
                   locals, hist>>

----------------------------------------------------------------------------
(* Control events, each handled to completion *)

NextClickF(fault) ==
    /\ pc["main"] # "crashed"
    /\ IF gui_next_frame_disabled
       THEN Suppressed("next")
       ELSE /\ Transition("next", NextRequest(gui_timestep), fault)
            /\ cycle' =
                 IF ~Initialised \/ TransitionRaises(NextRequest(gui_timestep), fault)
                 THEN NoCycle
                 ELSE IF cycle.count = 0 \/ cycle.count = num_frames
                 THEN IF VisibleFrames(frame_nodes) = {gui_timestep}
                      THEN [count |-> 1, start |-> gui_timestep]
                      ELSE NoCycle
                 ELSE [cycle EXCEPT !.count = cycle.count + 1]
    /\ touched' = TRUE
    /\ UNCHANGED <<num_frames, gui_timestep_disabled, gui_next_frame_disabled,
                   gui_prev_frame_disabled, gui_playing, gui_framerate,
                   pc, i, wait_fps, locals>>

NextClick == NextClickF(0)

PrevClickF(fault) ==
    /\ pc["main"] # "crashed"
    /\ IF gui_prev_frame_disabled
       THEN Suppressed("prev")
       ELSE /\ Transition("prev", PrevRequest(gui_timestep), fault)
            /\ cycle' = NoCycle
    /\ touched' = TRUE
    /\ UNCHANGED <<num_frames, gui_timestep_disabled, gui_next_frame_disabled,
                   gui_prev_frame_disabled, gui_playing, gui_framerate,
                   pc, i, wait_fps, locals>>

PrevClick == PrevClickF(0)

\* The user drags the timestep slider to another value j.
SliderInputF(j, fault) ==
    /\ pc["main"] # "crashed"
    /\ j # gui_timestep
    /\ IF gui_timestep_disabled
       THEN Suppressed("slider")
       ELSE /\ Transition("slider", j, fault)
            /\ cycle' = NoCycle
    /\ touched' = TRUE
    /\ UNCHANGED <<num_frames, gui_timestep_disabled, gui_next_frame_disabled,
                   gui_prev_frame_disabled, gui_playing, gui_framerate,
                   pc, i, wait_fps, locals>>

SliderInput == \E j \in 0..(num_frames - 1) : SliderInputF(j, 0)

\* PlayingInput with a callback that also rewinds the slider to frame 0, to
\* compare PlayingInput against.
PlayingInputRewind ==
    /\ pc["main"] # "crashed"
    /\ gui_playing' = ~gui_playing
    /\ gui_timestep_disabled' = PlayingDisabled(gui_playing')
    /\ gui_next_frame_disabled' = PlayingDisabled(gui_playing')
    /\ gui_prev_frame_disabled' = PlayingDisabled(gui_playing')
    /\ gui_timestep' = 0
    /\ touched' = TRUE
    /\ UNCHANGED <<num_frames, frame_nodes, gui_framerate,
                   prev_timestep, pc, i, wait_fps, locals, lastOp, trail, cycle>>

\* The user toggles the Playing checkbox; its callback copies the new value
\* into the disabled flag of the slider and of the two buttons.
PlayingInput ==
    /\ pc["main"] # "crashed"
    /\ gui_playing' = ~gui_playing
    /\ gui_timestep_disabled' = PlayingDisabled(gui_playing')
    /\ gui_next_frame_disabled' = PlayingDisabled(gui_playing')
    /\ gui_prev_frame_disabled' = PlayingDisabled(gui_playing')
    /\ touched' = TRUE
    /\ UNCHANGED <<num_frames, frame_nodes, gui_timestep, gui_framerate,
                   prev_timestep, pc, i, wait_fps, locals, lastOp, trail, cycle>>

\* The user moves the FPS slider to another value f.
FpsInput ==
    /\ pc["main"] # "crashed"
    /\ \E f \in (MinFps..MaxFps) \ {gui_framerate} : gui_framerate' = f
    /\ touched' = TRUE
    /\ UNCHANGED <<num_frames, frame_nodes, gui_timestep, gui_timestep_disabled,
                   gui_next_frame_disabled, gui_prev_frame_disabled, gui_playing,
                   prev_timestep, pc, i, wait_fps, locals, lastOp, trail, cycle>>

Next ==
    \/ LoadFrame
    \/ HideFrame
    \/ ResetPrev
    \/ Tick
    \/ Pace
    \/ Wake
    \/ NextClick
    \/ PrevClick
    \/ SliderInput
    \/ PlayingInput
    \/ FpsInput

Spec == Init /\ [][Next]_vars

\* The main thread is a sequential program that is always runnable and whose
\* time.sleep always returns: each of its steps is taken once it stays enabled.
\* Nothing is assumed of the events, which the user may or may not send.
SpecLive ==
    /\ Init
    /\ [][Next]_vars
    /\ WF_vars(LoadFrame)
    /\ WF_vars(HideFrame)
    /\ WF_vars(ResetPrev)
    /\ WF_vars(Tick)
    /\ WF_vars(Pace)
    /\ WF_vars(Wake)

\* The same handlers when a visible setter inside the atomic block may fail:
\* fault = 1 or 2 makes the first or the second write of the body raise.
Faults == 0..2

TickFault == \E f \in Faults : TickF(f)

NextClickFault == \E f \in Faults : NextClickF(f)

PrevClickFault == \E f \in Faults : PrevClickF(f)

SliderInputFault == \E j \in 0..(num_frames - 1) : \E f \in Faults : SliderInputF(j, f)

NextFault ==
    \/ LoadFrame
    \/ HideFrame
    \/ ResetPrev
    \/ TickFault
    \/ Pace
    \/ Wake
    \/ NextClickFault
    \/ PrevClickFault
    \/ SliderInputFault
    \/ PlayingInput

SpecFault == Init /\ [][NextFault]_vars

----------------------------------------------------------------------------
(* The same program with the main thread and the event thread interleaved   *)
(* statement by statement.  The atomic block is one step: it holds the      *)
(* exclusive scope, and the only shared variable it reads that is written   *)
(* outside any block, prev_timestep, is read by its last statement.         *)

\* "if gui_playing.value:" of the playback loop.
CheckPlaying ==
    /\ pc["main"] = "loop"
    /\ pc' = [pc EXCEPT !["main"] = IF gui_playing THEN "tick_read" ELSE "pace"]
    /\ UNCHANGED <<num_frames, frame_nodes, ctl, prev_timestep, i, wait_fps,
                   locals, hist>>

\* The playback loop evaluates (gui_timestep.value + 1) % num_frames.
TickRead ==
    /\ pc["main"] = "tick_read"
    /\ req' = [req EXCEPT !["main"] = TickRequest(gui_timestep)]
    /\ pc' = [pc EXCEPT !["main"] = "write"]
    /\ UNCHANGED <<num_frames, frame_nodes, ctl, prev_timestep, i, wait_fps,
                   current_timestep, hist>>

\* Thread t stores the value it computed into gui_timestep.value; the
\* on_update callback then starts on the same thread.
WriteTimestep(t) ==
    /\ pc[t] = "write"
    /\ gui_timestep' = req[t]
    /\ pc' = [pc EXCEPT ![t] = "cb_read"]
    /\ UNCHANGED <<num_frames, frame_nodes, gui_timestep_disabled,
                   gui_next_frame_disabled, gui_prev_frame_disabled, gui_playing,
                   gui_framerate, prev_timestep, i, wait_fps, locals, hist>>

\* current_timestep = gui_timestep.value
CallbackRead(t) ==
    /\ pc[t] = "cb_read"
    /\ current_timestep' = [current_timestep EXCEPT ![t] = gui_timestep]
    /\ pc' = [pc EXCEPT ![t] = "cb_atomic"]
    /\ UNCHANGED <<num_frames, frame_nodes, ctl, prev_timestep, i, wait_fps,
                   req, hist>>

\* The atomic block of the callback running on thread t.
CallbackAtomic(t) ==
    LET r == atomic(frame_nodes, Mutations(current_timestep[t], prev_timestep), 0)
    IN  /\ pc[t] = "cb_atomic"
        /\ frame_nodes' = r.nodes
        /\ pc' = [pc EXCEPT ![t] = IF ~r.raised THEN "cb_prev"
                                   ELSE IF t = "main" THEN "crashed" ELSE "idle"]
        /\ UNCHANGED <<num_frames, ctl, prev_timestep, i, wait_fps, locals, hist>>

\* prev_timestep = current_timestep, after the atomic block.
CallbackPrev(t) ==
    /\ pc[t] = "cb_prev"
    /\ prev_timestep' = current_timestep[t]
    /\ pc' = [pc EXCEPT ![t] = IF t = "main" THEN "pace" ELSE "idle"]
    /\ UNCHANGED <<num_frames, frame_nodes, ctl, i, wait_fps, locals, hist>>

\* The Next Frame callback evaluates (gui_timestep.value + 1) % num_frames.
NextBegin ==
    /\ InitDone
    /\ pc["event"] = "idle"
    /\ ~gui_next_frame_disabled
    /\ req' = [req EXCEPT !["event"] = NextRequest(gui_timestep)]
    /\ pc' = [pc EXCEPT !["event"] = "write"]
    /\ UNCHANGED <<num_frames, frame_nodes, ctl, prev_timestep, i, wait_fps,
                   current_timestep, hist>>

\* The Prev Frame callback evaluates (gui_timestep.value - 1) % num_frames.
PrevBegin ==
    /\ InitDone
    /\ pc["event"] = "idle"
    /\ ~gui_prev_frame_disabled
    /\ req' = [req EXCEPT !["event"] = PrevRequest(gui_timestep)]
    /\ pc' = [pc EXCEPT !["event"] = "write"]
    /\ UNCHANGED <<num_frames, frame_nodes, ctl, prev_timestep, i, wait_fps,
                   current_timestep, hist>>

\* The user drags the enabled slider to another value: the value is stored
\* and the on_update callback starts on the event thread.
SliderBegin ==
    /\ InitDone
    /\ pc["event"] = "idle"
    /\ ~gui_timestep_disabled
    /\ \E j \in (0..(num_frames - 1)) \ {gui_timestep} : gui_timestep' = j
    /\ pc' = [pc EXCEPT !["event"] = "cb_read"]
    /\ UNCHANGED <<num_frames, frame_nodes, gui_timestep_disabled,
                   gui_next_frame_disabled, gui_prev_frame_disabled, gui_playing,
                   gui_framerate, prev_timestep, i, wait_fps, locals, hist>>

\* The user toggles Playing: the value is stored and the callback starts.
PlayingBegin ==
    /\ InitDone
    /\ pc["event"] = "idle"
    /\ gui_playing' = ~gui_playing
    /\ pc' = [pc EXCEPT !["event"] = "playing_cb"]
    /\ UNCHANGED <<num_frames, frame_nodes, gui_timestep, gui_timestep_disabled,
                   gui_next_frame_disabled, gui_prev_frame_disabled,
                   gui_framerate, prev_timestep, i, wait_fps, locals, hist>>

\* The Playing callback writes the three disabled flags.  No other thread
\* reads or writes them, so the three writes are one step.
PlayingCallback ==
    /\ pc["event"] = "playing_cb"
    /\ gui_timestep_disabled' = PlayingDisabled(gui_playing)
    /\ gui_next_frame_disabled' = PlayingDisabled(gui_playing)
    /\ gui_prev_frame_disabled' = PlayingDisabled(gui_playing)
    /\ pc' = [pc EXCEPT !["event"] = "idle"]
    /\ UNCHANGED <<num_frames, frame_nodes, gui_timestep, gui_playing,
                   gui_framerate, prev_timestep, i, wait_fps, locals, hist>>

NextConc ==
    \/ LoadFrame
    \/ HideFrame
    \/ ResetPrev
    \/ CheckPlaying
    \/ TickRead
    \/ \E t \in Threads : WriteTimestep(t)
    \/ \E t \in Threads : CallbackRead(t)
    \/ \E t \in Threads : CallbackAtomic(t)
    \/ \E t \in Threads : CallbackPrev(t)
    \/ Pace
    \/ Wake
    \/ NextBegin
    \/ PrevBegin
    \/ SliderBegin
    \/ PlayingBegin
    \/ PlayingCallback

SpecConc == Init /\ [][NextConc]_vars

----------------------------------------------------------------------------
(* Properties *)

\* C1: once initialization has finished, after every completed timestep
\* transition (slider change, Next, Prev or tick) exactly one frame root is
\* visible, the one at the slider's value.
C1_OneVisibleAfterTransition ==
    (Initialised /\ lastOp.acted /\ lastOp.op \in {"slider", "next", "prev", "tick"})
        => VisibleFrames(frame_nodes) = {gui_timestep}

\* C2: with the playback loop and the control callbacks interleaved, the
\* committed state a viewer has between two published batches shows exactly
\* one frame root.  Stated for num_frames >= 2, where every transition asks
\* for an index other than the current one.
C2_OneVisibleInterleaved ==
    (InitDone /\ num_frames >= 2)
        => Cardinality(VisibleFrames(frame_nodes)) = 1

\* C3: when initialization completes and no control event has occurred, there
\* is one node per frame index and exactly the frame at index 0, the initial
\* slider value, is visible.
C3_InitOneVisible ==
    (pc["main"] \in {"reset", "loop", "pace", "sleep"} /\ ~touched)
        => /\ Len(frame_nodes) = num_frames
           /\ gui_timestep = 0
           /\ VisibleFrames(frame_nodes) = {0}

C3_Witness ==
    /\ pc["main"] = "loop"
    /\ ~touched
    /\ num_frames = MaxFrames
    /\ VisibleFrames(frame_nodes) = {0}

\* C4: a Prev that acts right after a Next that acted, and a Next right after
\* a Prev (the controls are enabled, so playing is false), ends at the slider
\* value and the visibility of every frame root that the first of the two
\* started from.
C4_NextPrevRoundTrip ==
    [][(\/ (PrevClick /\ ~gui_prev_frame_disabled /\ trail.op = "next")
        \/ (NextClick /\ ~gui_next_frame_disabled /\ trail.op = "prev"))
          => /\ gui_timestep' = trail.ts
             /\ frame_nodes' = trail.nodes]_vars

\* C5: after the j-th of a run of Next clicks started at index k with exactly
\* frame k visible, exactly frame (k + j) mod num_frames is visible and is the
\* slider's value; for j = num_frames that is the starting state again.
C5_NextCycle ==
    cycle.count > 0
        => /\ gui_timestep = (cycle.start + cycle.count) % num_frames
           /\ VisibleFrames(frame_nodes) = {(cycle.start + cycle.count) % num_frames}

\* C6: a slider change to an index j other than the current one publishes
\* exactly one batch of exactly two mutations, visible = false on the old
\* frame and visible = true on frame j, leaves the slider value and
\* prev_timestep at j, with frame j visible and the old frame hidden, and
\* changes no other node.
C6_SliderOneTransaction ==
    [][(SliderInput /\ Initialised /\ ~gui_timestep_disabled)
          => LET j == gui_timestep'
                 old == gui_timestep
             IN  /\ j # old
                 /\ Len(lastOp'.txs) = 1
                 /\ Len(lastOp'.txs[1]) = 2
                 /\ {lastOp'.txs[1][m] : m \in 1..2} =
                        {[node |-> old, visible |-> FALSE],
                         [node |-> j, visible |-> TRUE]}
                 /\ prev_timestep' = j
                 /\ frame_nodes'[j + 1]
                 /\ ~frame_nodes'[old + 1]
                 /\ \A k \in 0..(num_frames - 1) :
                        k \notin {j, old} => frame_nodes'[k + 1] = frame_nodes[k + 1]]_vars

C6_Witness ==
    /\ Initialised
    /\ lastOp.op = "slider"
    /\ lastOp.acted
    /\ num_frames = MaxFrames
    /\ gui_timestep = 2
    /\ lastOp.txs = << << [node |-> 2, visible |-> TRUE],
                          [node |-> 0, visible |-> FALSE] >> >>
    /\ VisibleFrames(frame_nodes) = {2}

\* C7: whenever playing is true the slider and both buttons are disabled, and
\* whenever it is false they are enabled; a control event that arrives while
\* playing is true changes neither the slider value nor any visibility.
C7_DisabledWhilePlaying ==
    [][/\ gui_timestep_disabled' = gui_playing'
       /\ gui_next_frame_disabled' = gui_playing'
       /\ gui_prev_frame_disabled' = gui_playing'
       /\ (gui_playing /\ (NextClick \/ PrevClick \/ SliderInput))
              => UNCHANGED <<gui_timestep, frame_nodes, prev_timestep>>]_vars

C7_Witness ==
    /\ Initialised
    /\ gui_playing
    /\ gui_next_frame_disabled
    /\ lastOp.op = "next"
    /\ ~lastOp.acted

\* C8: an atomic block whose body raises, also after its first write was
\* issued, leaves every node as it was before the block and publishes nothing.
C8_RaiseRollsBack ==
    [][((TickFault \/ NextClickFault \/ PrevClickFault \/ SliderInputFault)
           /\ lastOp'.raised)
          => /\ frame_nodes' = frame_nodes
             /\ lastOp'.txs = <<>>]_vars

C8_Witness ==
    /\ Initialised
    /\ lastOp.op = "slider"
    /\ lastOp.raised
    /\ lastOp.fault = 2
    /\ num_frames = MaxFrames
    /\ gui_timestep # prev_timestep
    /\ ~frame_nodes[gui_timestep + 1]
    /\ frame_nodes[prev_timestep + 1]

\* C9: while playing is true a pass of the playback loop is a step of the
\* Next Frame callback (same slider value, visibility and prev_timestep
\* afterwards); while playing is false it changes none of them.
C9_TickIsNext ==
    [][Tick =>
          IF gui_playing
          THEN SetTimestep(NextRequest(gui_timestep), 0)
          ELSE UNCHANGED <<gui_timestep, frame_nodes, prev_timestep>>]_vars

C9_Witness ==
    /\ lastOp.op = "tick"
    /\ lastOp.acted
    /\ num_frames = MaxFrames
    /\ gui_timestep = 0
    /\ prev_timestep = 0
    /\ VisibleFrames(frame_nodes) = {0}

\* C10: once playing is false and the controls are enabled again, the
\* playback loop does not change the slider value.
C10_NoTickWhilePaused ==
    [][(pc["main"] = "write" /\ pc'["main"] # "write" /\ gui_timestep' # gui_timestep)
          => (gui_playing \/ gui_timestep_disabled)]_vars

\* A step of a timestep handler whose control is enabled (the playback loop
\* while playing, a click or a drag while the control is not disabled), with
\* or without a failing setter.
ActingStep ==
    \/ (TickFault /\ gui_playing)
    \/ (NextClickFault /\ ~gui_next_frame_disabled)
    \/ (PrevClickFault /\ ~gui_prev_frame_disabled)
    \/ (SliderInputFault /\ ~gui_timestep_disabled)

\* C11: from a state with exactly the frame at the remembered index visible,
\* a handler whose callback raises leaves the visibilities and the remembered
\* index as they were, and a handler that completes ends with exactly the
\* frame it requested visible.  Stated for num_frames >= 2.
C11_ErrorAbortsOnlyTransition ==
    [][(/\ num_frames >= 2
        /\ Initialised
        /\ VisibleFrames(frame_nodes) = {prev_timestep}
        /\ ActingStep)
          => IF lastOp'.raised
             THEN /\ frame_nodes' = frame_nodes
                  /\ prev_timestep' = prev_timestep
             ELSE VisibleFrames(frame_nodes') = {gui_timestep'}]_vars

\* C12: a wait is computed from the FPS value current when it begins; an FPS
\* change during the wait leaves the wait in flight as it is, and the next
\* wait uses the value current at its own start.
C12_WaitUsesCurrentFps ==
    [][/\ Pace => wait_fps' = gui_framerate
       /\ (pc["main"] = "sleep" /\ pc'["main"] = "sleep") => wait_fps' = wait_fps]_vars

C12_Witness ==
    /\ pc["main"] = "sleep"
    /\ gui_playing
    /\ wait_fps = MinFps
    /\ gui_framerate = MaxFps
    /\ lastOp.op = "tick"

\* C13: a Next, Prev or tick that requests the index the slider already has
\* (num_frames = 1), started with that frame visible, leaves the frame
\* visible and the slider value unchanged.
C13_SameIndexStaysVisible ==
    [][(/\ Initialised
        /\ frame_nodes[gui_timestep + 1]
        /\ \/ (NextClick /\ ~gui_next_frame_disabled
                  /\ NextRequest(gui_timestep) = gui_timestep)
           \/ (PrevClick /\ ~gui_prev_frame_disabled
                  /\ PrevRequest(gui_timestep) = gui_timestep)
           \/ (Tick /\ gui_playing /\ TickRequest(gui_timestep) = gui_timestep))
          => /\ gui_timestep' = gui_timestep
             /\ frame_nodes'[gui_timestep + 1]
             /\ VisibleFrames(frame_nodes') # {}]_vars

\* C14: whatever control events arrived while the frames were loaded and
\* hidden, no callback indexed a frame node that did not exist, and when the
\* playback loop starts exactly the frame at the slider's value is visible
\* and prev_timestep is that value.
C14_EventsDuringInit ==
    [][/\ (~InitDone /\ (NextClick \/ PrevClick \/ SliderInput)) => ~lastOp'.raised
       /\ ResetPrev =>
             /\ VisibleFrames(frame_nodes') = {gui_timestep'}
             /\ prev_timestep' = gui_timestep']_vars

\* C15: the slider's value and prev_timestep are always valid frame indices,
\* at least 0 and below num_frames, whatever sequence of clicks, slider
\* inputs and ticks has run.
C15_IndicesInRange ==
    /\ gui_timestep \in 0..(num_frames - 1)
    /\ prev_timestep \in 0..(num_frames - 1)

\* The wrap-around has happened: a Next Frame click at the last frame brought
\* the slider and prev_timestep back to index 0.
C15_Witness ==
    /\ num_frames = MaxFrames
    /\ Initialised
    /\ lastOp.op = "next" /\ lastOp.acted /\ ~lastOp.raised
    /\ trail.op = "next" /\ trail.ts = MaxFrames - 1
    /\ gui_timestep = 0 /\ prev_timestep = 0

\* C16: the playback loop never stops, and if Playing stays checked and the
\* loop is scheduled fairly, every frame index below num_frames becomes the
\* single visible frame again and again.
C16_PlaybackCyclesForever ==
    <>[]gui_playing
        => \A k \in 0..(MaxFrames - 1) :
              []<>(k < num_frames => VisibleFrames(frame_nodes) = {k})

\* C17: a write of the slider's value by the Next callback, the Prev callback
\* or the playback loop runs the slider's update callback once, as an
\* interactive slider change does; so after any of the four, prev_timestep is
\* the slider's value and the visible frame is the frame at that value.
C17_SameNotificationPath ==
    [][(/\ Initialised
        /\ \/ (NextClick /\ ~gui_next_frame_disabled)
           \/ (PrevClick /\ ~gui_prev_frame_disabled)
           \/ (SliderInput /\ ~gui_timestep_disabled)
           \/ (Tick /\ gui_playing))
          => /\ lastOp'.acted /\ Len(lastOp'.txs) = 1
             /\ prev_timestep' = gui_timestep'
             /\ VisibleFrames(frame_nodes') = {gui_timestep'}]_vars

\* C18: a change of the FPS value or a toggle of the Playing checkbox changes
\* neither the slider's value, nor prev_timestep, nor the visibility of any
\* frame, and opens no transaction; the Playing callback writes only the
\* disabled flags of the slider and the two step buttons.
C18_FpsAndPlayingLeaveFrames ==
    [][/\ (FpsInput \/ PlayingInput)
            => /\ UNCHANGED <<gui_timestep, prev_timestep, frame_nodes>>
               /\ lastOp' = lastOp
       /\ FpsInput
            => UNCHANGED <<gui_playing, gui_timestep_disabled,
                           gui_next_frame_disabled, gui_prev_frame_disabled>>
       /\ PlayingInput => gui_framerate' = gui_framerate]_vars

\* Playing has been checked and the FPS value changed while frame 2 was the
\* visible frame, after a slider input had put it there.
C18_Witness ==
    /\ Initialised
    /\ gui_playing /\ gui_timestep_disabled
    /\ gui_framerate # MinFps
    /\ lastOp.op = "slider" /\ lastOp.acted
    /\ gui_timestep = 2 /\ prev_timestep = 2
    /\ VisibleFrames(frame_nodes) = {2}

====
